---- MODULE Spec2Model ----
(***************************************************************************)
(* Model of FinancialDataETL (etl_pipeline.py): the validator, the         *)
(* indicator engine, the resampler and run_pipeline.                       *)
(*                                                                         *)
(* A DataFrame is a record [cols, rows]: cols is the ordered sequence of   *)
(* column names and rows the sequence of rows, each row a function from    *)
(* the column names to values.  OHLCV values are integers or NaN; the      *)
(* derived indicator values are fractions (see Frac).                      *)
(***************************************************************************)
EXTENDS Integers, Sequences, FiniteSets, TLC

VARIABLES
    df,                   \* the frame the last operation returned
    arg,                  \* content, at call time, of the frame passed to the last operation
    passed,               \* content, after the call, of the object that was passed in
    data_quality_report,  \* self.data_quality_report
    op,                   \* the last operation performed
    output_format,        \* self.output_format
    pc,                   \* where run_pipeline stands: the stage it performs next
    source_type,          \* run_pipeline's arguments
    add_indicators,
    resample_freq,
    extracted,            \* the frame the extractor returned
    stages,               \* the stages run_pipeline has performed, in order
    loaded,               \* the frames load_to_file has written
    report_before         \* the report as it stood when run_pipeline was called

pipeline_vars ==
    <<output_format, pc, source_type, add_indicators, resample_freq, extracted, stages,
      loaded, report_before>>

vars == <<df, arg, passed, data_quality_report, op, pipeline_vars>>

(***************************************************************************)
(* Bounds of the model.                                                    *)
(***************************************************************************)
MaxRows == 2
MaxCalls == 2
MaxCloseRows == 15
MaxTurns == 1
MaxBars == 2
MaxExtractRows == 2

(***************************************************************************)
(* Missing values and pandas' comparisons with them.                       *)
(***************************************************************************)
NaN == -999

IsNull(x) == x = NaN

\* A comparison with NaN on either side is False.
Lt(a, b) == ~IsNull(a) /\ ~IsNull(b) /\ a < b
Gt(a, b) == ~IsNull(a) /\ ~IsNull(b) /\ a > b
Le(a, b) == ~IsNull(a) /\ ~IsNull(b) /\ a <= b
Ge(a, b) == ~IsNull(a) /\ ~IsNull(b) /\ a >= b

(***************************************************************************)
(* Frames.                                                                 *)
(***************************************************************************)
Frame(cols, rows) == [cols |-> cols, rows |-> rows]

EmptyFrame == Frame(<<>>, <<>>)

Columns(d) == {d.cols[i] : i \in DOMAIN d.cols}

\* df[mask]: the rows whose mask entry is TRUE, in their original order.
RECURSIVE MaskFrom(_, _, _)
MaskFrom(rows, mask, i) ==
    IF i > Len(rows) THEN <<>>
    ELSE (IF mask[i] THEN <<rows[i]>> ELSE <<>>) \o MaskFrom(rows, mask, i + 1)

Mask(rows, mask) == MaskFrom(rows, mask, 1)

\* (mask).sum(): how many entries are TRUE.
CountTrue(rows, mask) == Cardinality({i \in DOMAIN rows : mask[i]})

(***************************************************************************)
(* validate_data                                                           *)
(***************************************************************************)
price_cols == <<"open", "high", "low", "close">>

Issue(rule, count) == [rule |-> rule, count |-> count]

\* df.isnull().sum(), kept for the columns with at least one missing value.
MissingCounts(d) ==
    LET n(c) == Cardinality({i \in DOMAIN d.rows : IsNull(d.rows[i][c])})
    IN  {<<c, n(c)>> : c \in {k \in Columns(d) : n(k) > 0}}

\* df.duplicated(): a row equal, on all fields, to an earlier row.
Duplicated(rows) == [i \in DOMAIN rows |-> \E j \in 1..(i - 1) : rows[j] = rows[i]]

InvalidOhlc(r) ==
    \/ Lt(r["high"], r["low"])
    \/ Lt(r["high"], r["open"])
    \/ Lt(r["high"], r["close"])
    \/ Gt(r["low"], r["open"])
    \/ Gt(r["low"], r["close"])

\* Faulty variants of the price column's filter: one keeps the rows >= 0,
\* one drops only the first offending row.
KeepPositiveOrZero(rows, col) == Mask(rows, [i \in DOMAIN rows |-> Ge(rows[i][col], 0)])

KeepPositiveDropFirst(rows, col) ==
    LET bad == {i \in DOMAIN rows : ~Gt(rows[i][col], 0)}
    IN  Mask(rows, [i \in DOMAIN rows |-> ~(i \in bad /\ \A j \in bad : i <= j)])

\* The price column's filter: rows kept by df[df[col] > 0].
KeepPositive(rows, col) == Mask(rows, [i \in DOMAIN rows |-> Gt(rows[i][col], 0)])

\* The one value of a set that holds exactly one.
Only(S) == CHOOSE x \in S : TRUE

\* validate_data threads st = [cols, rows, issues] through its rules: cols
\* are df.columns, rows the rows of df as reassigned so far.
Start(d) == [cols |-> Columns(d), rows |-> d.rows, issues |-> <<>>]

\* Check for missing values: reported, no row removed.
CheckMissing(d, st) ==
    IF MissingCounts(d) # {}
    THEN [st EXCEPT !.issues = Append(@, Issue("Missing values", MissingCounts(d)))]
    ELSE st

\* Check for duplicates.
DropDuplicates(st) ==
    LET duplicates == CountTrue(st.rows, Duplicated(st.rows))
    IN  IF duplicates > 0
        THEN [st EXCEPT
                !.rows = Mask(st.rows, [i \in DOMAIN st.rows |-> ~Duplicated(st.rows)[i]]),
                !.issues = Append(@, Issue("Duplicate rows", duplicates))]
        ELSE st

\* Validate OHLC relationships.
DropInvalidOhlc(st) ==
    IF {"open", "high", "low", "close"} \subseteq st.cols
    THEN LET invalid_ohlc == [i \in DOMAIN st.rows |-> InvalidOhlc(st.rows[i])]
         IN  IF CountTrue(st.rows, invalid_ohlc) > 0
             THEN [st EXCEPT
                     !.rows = Mask(st.rows, [i \in DOMAIN st.rows |-> ~invalid_ohlc[i]]),
                     !.issues = Append(@, Issue("Invalid OHLC relationships",
                                                CountTrue(st.rows, invalid_ohlc)))]
             ELSE st
    ELSE st

\* Check for negative prices: one pass of the loop, for column col.
DropNonPositive(st, col) ==
    IF col \in st.cols
    THEN LET negative == CountTrue(st.rows, [i \in DOMAIN st.rows |-> Le(st.rows[i][col], 0)])
         IN  IF negative > 0
             THEN [st EXCEPT
                     !.rows = KeepPositive(st.rows, col),
                     !.issues = Append(@, Issue("Negative " \o col, negative))]
             ELSE st
    ELSE st

\* The loop over price_cols, from column k on.
RECURSIVE NegativePrices(_, _)
NegativePrices(st, k) ==
    IF k > Len(price_cols) THEN st
    ELSE Only({NegativePrices(next, k + 1) : next \in {DropNonPositive(st, price_cols[k])}})

\* Check for negative volume.
DropNegativeVolume(st) ==
    IF "volume" \in st.cols
    THEN LET negative_vol ==
                 CountTrue(st.rows, [i \in DOMAIN st.rows |-> Lt(st.rows[i]["volume"], 0)])
         IN  IF negative_vol > 0
             THEN [st EXCEPT
                     !.rows = Mask(st.rows, [i \in DOMAIN st.rows |-> Ge(st.rows[i]["volume"], 0)]),
                     !.issues = Append(@, Issue("Negative volume", negative_vol))]
             ELSE st
    ELSE st

\* st after each rule of validate_data, in the order it applies them.
AfterMissing(d) == Only({CheckMissing(d, st) : st \in {Start(d)}})
AfterDuplicates(d) == Only({DropDuplicates(st) : st \in {AfterMissing(d)}})
AfterOhlc(d) == Only({DropInvalidOhlc(st) : st \in {AfterDuplicates(d)}})
AfterPrices(d) == Only({NegativePrices(st, 1) : st \in {AfterOhlc(d)}})
AfterVolume(d) == Only({DropNegativeVolume(st) : st \in {AfterPrices(d)}})

\* Faulty variant of the report entry: initial_rows read after df was
\* reassigned.
ReportEntryStale(initial_rows, st) ==
    [initial_rows |-> Len(st.rows),
     final_rows |-> Len(st.rows),
     removed_rows |-> 0,
     issues |-> st.issues]

\* The report entry of a call that took initial_rows rows and ends with st.
ReportEntry(initial_rows, st) ==
    [initial_rows |-> initial_rows,
     final_rows |-> Len(st.rows),
     removed_rows |-> initial_rows - Len(st.rows),
     issues |-> st.issues]

\* What validate_data returns, and the entry it appends to the report.
validate_data(d) ==
    Only({[df |-> Frame(d.cols, st.rows), entry |-> ReportEntry(Len(d.rows), st)] :
            st \in {AfterVolume(d)}})

(***************************************************************************)
(* Floating-point values of the derived columns, kept exact: a value is    *)
(* a fraction n/d in lowest terms with d >= 0, where 1/0 is +inf, -1/0 is  *)
(* -inf and 0/0 is NaN, so that x/0, 1 + inf, 100/inf and 0/0 come out as  *)
(* IEEE arithmetic gives them.                                             *)
(***************************************************************************)
Abs(x) == IF x < 0 THEN -x ELSE x

Sign(x) == IF x > 0 THEN 1 ELSE IF x < 0 THEN -1 ELSE 0

RECURSIVE GCD(_, _)
GCD(a, b) == IF b = 0 THEN a ELSE GCD(b, a % b)

Frac(n, d) ==
    IF d = 0 THEN [n |-> Sign(n), d |-> 0]
    ELSE LET g == GCD(Abs(n), Abs(d))
         IN  [n |-> (Sign(d) * n) \div g, d |-> Abs(d) \div g]

FNaN == Frac(0, 0)

FInt(x) == Frac(x, 1)

\* An OHLCV cell as a float.
ToFrac(x) == IF IsNull(x) THEN FNaN ELSE FInt(x)

IsFNaN(a) == a.n = 0 /\ a.d = 0

FAdd(a, b) == Frac(a.n * b.d + b.n * a.d, a.d * b.d)
FNeg(a) == [n |-> -a.n, d |-> a.d]
FSub(a, b) == FAdd(a, FNeg(b))
FMul(a, b) == Frac(a.n * b.n, a.d * b.d)
\* a/b: a finite a over 0 is +inf or -inf by the sign of a, 0/0 is NaN.
FDiv(a, b) == Frac(a.n * b.d * (IF b.n < 0 THEN -1 ELSE 1), a.d * Abs(b.n))

\* Comparisons are False when either side is NaN.
FLt(a, b) ==
    /\ ~IsFNaN(a) /\ ~IsFNaN(b)
    /\ IF a.d = 0 \/ b.d = 0
       THEN (IF a.d = 0 THEN a.n ELSE 0) < (IF b.d = 0 THEN b.n ELSE 0)
       ELSE a.n * b.d < b.n * a.d
FGt(a, b) == FLt(b, a)
FLe(a, b) == ~IsFNaN(a) /\ ~IsFNaN(b) /\ ~FLt(b, a)

(***************************************************************************)
(* Series operations used by transform_add_indicators.  A series is a      *)
(* sequence of fractions, one per row.                                     *)
(***************************************************************************)
\* The series with every element computed.
Series(s) == SubSeq(s, 1, Len(s))

RECURSIVE FSum(_, _, _)
FSum(s, lo, hi) == IF lo > hi THEN FInt(0) ELSE FAdd(s[lo], FSum(s, lo + 1, hi))

\* s.shift(1)
Shift(s) == Series([i \in DOMAIN s |-> IF i = 1 THEN FNaN ELSE s[i - 1]])

\* s.diff()
Diff(s) ==
    LET prev == Shift(s)
    IN  Series([i \in DOMAIN s |-> FSub(s[i], prev[i])])

\* s.rolling(window=w): the window of row i holds a value only when it has
\* w observations, none of them missing.
WindowFull(s, w, i) == i >= w /\ \A j \in (i - w + 1)..i : ~IsFNaN(s[j])

\* s.rolling(window=w).mean()
RollingMean(s, w) ==
    Series([i \in DOMAIN s |->
        IF WindowFull(s, w, i) THEN FDiv(FSum(s, i - w + 1, i), FInt(w)) ELSE FNaN])

\* The square of s.rolling(window=w).std(): the sample variance (N-1).
RollingVar(s, w) ==
    Series([i \in DOMAIN s |->
        IF WindowFull(s, w, i)
        THEN LET mean == FDiv(FSum(s, i - w + 1, i), FInt(w))
                 sq == [j \in DOMAIN s |-> FMul(FSub(s[j], mean), FSub(s[j], mean))]
             IN  FDiv(FSum(sq, i - w + 1, i), FInt(w - 1))
        ELSE FNaN])

\* s.where(s > 0, 0) and s.where(s < 0, 0): the value where the condition
\* holds, 0 elsewhere (also where the comparison involves a missing value).
WherePositive(s) == Series([i \in DOMAIN s |-> IF FGt(s[i], FInt(0)) THEN s[i] ELSE FInt(0)])
WhereNegative(s) == Series([i \in DOMAIN s |-> IF FLt(s[i], FInt(0)) THEN s[i] ELSE FInt(0)])

(***************************************************************************)
(* transform_add_indicators                                                *)
(***************************************************************************)
SmaShort == 20
SmaLong == 50
VolatilityWindow == 20
TradingDays == 252
RsiWindow == 14

IndicatorCols == <<"sma_20", "sma_50", "returns", "log_returns", "volatility_20", "rsi">>

CloseSeries(d) == Series([i \in DOMAIN d.rows |-> ToFrac(d.rows[i]["close"])])

\* df['close'].pct_change()
Returns(close) ==
    LET prev == Shift(close)
    IN  Series([i \in DOMAIN close |-> FSub(FDiv(close[i], prev[i]), FInt(1))])

\* The argument of np.log in log_returns; the column holds its logarithm.
LogArg(close) ==
    LET prev == Shift(close)
    IN  Series([i \in DOMAIN close |-> FDiv(close[i], prev[i])])

\* The square of volatility_20: the rolling variance of returns times 252.
VolatilitySq(close) ==
    LET variance == RollingVar(Returns(close), VolatilityWindow)
    IN  Series([i \in DOMAIN close |-> FMul(variance[i], FInt(TradingDays))])

Gain(delta) == RollingMean(WherePositive(delta), RsiWindow)

Loss(delta) ==
    LET down == WhereNegative(delta)
    IN  RollingMean(Series([i \in DOMAIN delta |-> FNeg(down[i])]), RsiWindow)

\* Faulty variant of rs: loss over gain.
RsInverted(gain, loss) == Series([i \in DOMAIN gain |-> FDiv(loss[i], gain[i])])

Rs(gain, loss) == Series([i \in DOMAIN gain |-> FDiv(gain[i], loss[i])])

Rsi(close) ==
    LET delta == Diff(close)
        rs == Rs(Gain(delta), Loss(delta))
    IN  Series([i \in DOMAIN close |->
            FSub(FInt(100), FDiv(FInt(100), FAdd(FInt(1), rs[i])))])

\* The columns assigned to df, row by row.
IndicatorRows(close) ==
    LET sma_20 == RollingMean(close, SmaShort)
        sma_50 == RollingMean(close, SmaLong)
        returns == Returns(close)
        log_arg == LogArg(close)
        volatility_sq == VolatilitySq(close)
        rsi == Rsi(close)
    IN  [i \in DOMAIN close |->
            [sma_20 |-> sma_20[i],
             sma_50 |-> sma_50[i],
             returns |-> returns[i],
             log_returns |-> [ln_of |-> log_arg[i]],
             volatility_20 |-> [sqrt_of |-> volatility_sq[i]],
             rsi |-> rsi[i]]]

\* df[name] = ...: a new column goes last, an existing one keeps its place.
WithColumns(cols, new) ==
    cols \o SelectSeq(new, LAMBDA c : c \notin {cols[i] : i \in DOMAIN cols})

\* The content of df after the assignments of transform_add_indicators.
Enriched(d) ==
    IF "close" \in Columns(d)
    THEN LET derived == IndicatorRows(CloseSeries(d))
         IN  Frame(WithColumns(d.cols, IndicatorCols),
                   [i \in DOMAIN d.rows |-> derived[i] @@ d.rows[i]])
    ELSE d

\* transform_add_indicators assigns the columns to the frame it was given
\* and returns that same frame: result is the returned frame and input the
\* content of the caller's frame after the call.
transform_add_indicators(d) == Only({[result |-> e, input |-> e] : e \in {Enriched(d)}})

(***************************************************************************)
(* transform_resample.  A timestamp is a day number, day 0 a Sunday.       *)
(***************************************************************************)
WeekDays == 7

ResampledCols == <<"timestamp", "open", "high", "low", "close", "volume">>

\* The label of the bin that day t falls in: 'W' bins end on a Sunday, are
\* closed on the right and labelled by their last day; 'D' bins are the days.
BinLabel(freq, t) ==
    IF freq = "W" THEN WeekDays * ((t + WeekDays - 1) \div WeekDays) ELSE t

\* The rows in timestamp order, rows of equal timestamp in their original
\* order (resample sorts the index with a stable sort).
RECURSIVE InsertByTimestamp(_, _)
InsertByTimestamp(sorted, r) ==
    IF sorted = <<>> THEN <<r>>
    ELSE IF sorted[Len(sorted)]["timestamp"] <= r["timestamp"] THEN Append(sorted, r)
    ELSE Append(InsertByTimestamp(SubSeq(sorted, 1, Len(sorted) - 1), r), sorted[Len(sorted)])

\* Faulty variant of the sort: the rows left in the order they came in.
Unsorted(rows) == rows

RECURSIVE SortByTimestamp(_)
SortByTimestamp(rows) ==
    IF rows = <<>> THEN <<>>
    ELSE InsertByTimestamp(SortByTimestamp(SubSeq(rows, 1, Len(rows) - 1)), rows[Len(rows)])

\* The values of one column in a bin that are not missing, in order.
NotNull(rows, col) == SelectSeq([i \in DOMAIN rows |-> rows[i][col]], LAMBDA x : ~IsNull(x))

\* 'first' and 'last': the first and the last value that is not missing.
AggFirst(vals) == IF vals = <<>> THEN NaN ELSE vals[1]
AggLast(vals) == IF vals = <<>> THEN NaN ELSE vals[Len(vals)]

\* 'max' and 'min' over the values that are not missing.
AggMax(vals) ==
    IF vals = <<>> THEN NaN
    ELSE CHOOSE x \in {vals[i] : i \in DOMAIN vals} : \A i \in DOMAIN vals : vals[i] <= x
AggMin(vals) ==
    IF vals = <<>> THEN NaN
    ELSE CHOOSE x \in {vals[i] : i \in DOMAIN vals} : \A i \in DOMAIN vals : vals[i] >= x

\* 'sum' over the values that are not missing; 0 when there is none.
RECURSIVE AggSum(_)
AggSum(vals) == IF vals = <<>> THEN 0 ELSE vals[1] + AggSum(Tail(vals))

\* The aggregated row of the bin labelled b.
BinRow(sorted, freq, b) ==
    LET bin == SelectSeq(sorted, LAMBDA r : BinLabel(freq, r["timestamp"]) = b)
    IN  [timestamp |-> b,
         open |-> AggFirst(NotNull(bin, "open")),
         high |-> AggMax(NotNull(bin, "high")),
         low |-> AggMin(NotNull(bin, "low")),
         close |-> AggLast(NotNull(bin, "close")),
         volume |-> AggSum(NotNull(bin, "volume"))]

\* .dropna(): a row with any missing value is dropped.
Complete(r) == \A c \in DOMAIN r : ~IsNull(r[c])

\* The bins from the first label to the last, ascending, empty ones included.
RECURSIVE BinRows(_, _, _, _)
BinRows(sorted, freq, b, last) ==
    IF b > last THEN <<>>
    ELSE <<BinRow(sorted, freq, b)>>
         \o BinRows(sorted, freq, b + (IF freq = "W" THEN WeekDays ELSE 1), last)

transform_resample(d, freq) ==
    IF "timestamp" \notin Columns(d) THEN d
    ELSE LET sorted == SortByTimestamp(d.rows)
             bins == IF sorted = <<>> THEN <<>>
                     ELSE BinRows(sorted, freq,
                                  BinLabel(freq, sorted[1]["timestamp"]),
                                  BinLabel(freq, sorted[Len(sorted)]["timestamp"]))
         IN  Frame(ResampledCols, SelectSeq(bins, Complete))

(***************************************************************************)
(* load_to_file                                                            *)
(***************************************************************************)
KnownFormats == {"parquet", "csv", "json"}

(***************************************************************************)
(* Inputs of the validator.                                                *)
(***************************************************************************)
PriceVals == {NaN, 0, 1}
VolumeVals == {NaN, -1, 0}

OhlcvCols == <<"open", "high", "low", "close", "volume">>

MkRow(o, h, l, c, v) == [open |-> o, high |-> h, low |-> l, close |-> c, volume |-> v]

CleanRow == MkRow(1, 1, 1, 1, 0)

\* Bars that differ from a clean bar in at most two fields.
ValidateRows ==
    {r \in {MkRow(o, h, l, c, v) : o \in PriceVals, h \in PriceVals, l \in PriceVals,
                                   c \in PriceVals, v \in VolumeVals} :
        Cardinality({f \in DOMAIN r : r[f] # CleanRow[f]}) <= 2}

SeqsUpTo(S, n) == UNION {[1..k -> S] : k \in 0..n}

ValidateInputs ==
    {EmptyFrame} \cup {Frame(OhlcvCols, rows) : rows \in SeqsUpTo(ValidateRows, MaxRows)}

(***************************************************************************)
(* Inputs of the indicator engine: close series that move by -1, 0 or +1   *)
(* from row to row and change their step at most MaxTurns times, and       *)
(* frames with no close column.                                            *)
(***************************************************************************)
StepVals == {-1, 0, 1}

Turns(steps) == Cardinality({i \in 1..(Len(steps) - 1) : steps[i] # steps[i + 1]})

RECURSIVE StepSeqs(_)
StepSeqs(n) ==
    IF n = 0 THEN {<<>>}
    ELSE {t \in {Append(s, x) : s \in StepSeqs(n - 1), x \in StepVals} : Turns(t) <= MaxTurns}

RECURSIVE CloseFrom(_, _)
CloseFrom(first, steps) ==
    IF steps = <<>> THEN <<first>>
    ELSE <<first>> \o CloseFrom(first + steps[1], Tail(steps))

CloseSeqs ==
    {<<>>} \cup UNION {{CloseFrom(MaxCloseRows, s) : s \in StepSeqs(n)} : n \in 0..(MaxCloseRows - 1)}

IndicatorInputs ==
    {Frame(<<"close">>, [i \in DOMAIN s |-> [close |-> s[i]]]) : s \in CloseSeqs}
    \cup {EmptyFrame, Frame(<<"volume">>, <<[volume |-> 0]>>)}

(***************************************************************************)
(* Inputs of the resampler: bars on a Saturday, the Sunday that ends the   *)
(* week and the Monday after it, and frames with no timestamp column.      *)
(***************************************************************************)
ResampleDays == {6, 7, 8}
BarVals == {NaN, 1, 2}
BarVolumes == {NaN, 1}

\* A bar that opens at o and closes at c: its high and low are the larger
\* and the smaller of the two, as far as they are known.
Bar(t, o, c, v) ==
    [timestamp |-> t, open |-> o, close |-> c, volume |-> v,
     high |-> IF IsNull(o) THEN c ELSE IF IsNull(c) THEN o ELSE IF o > c THEN o ELSE c,
     low |-> IF IsNull(o) THEN c ELSE IF IsNull(c) THEN o ELSE IF o < c THEN o ELSE c]

ResampleRows ==
    {Bar(t, o, c, v) : t \in ResampleDays, o \in BarVals, c \in BarVals, v \in BarVolumes}

ResampleInputs ==
    {Frame(ResampledCols, rows) : rows \in SeqsUpTo(ResampleRows, MaxBars)}
    \cup {EmptyFrame, Frame(OhlcvCols, <<CleanRow>>)}

Frequencies == {"W", "D"}

(***************************************************************************)
(* The frames an extractor can return: bars on the Sunday that ends a week *)
(* and the Monday after it.                                                *)
(***************************************************************************)
ExtractDays == {7, 8}

ExtractBars == {CleanRow, MkRow(NaN, 1, 1, 1, 0), MkRow(1, 1, 0, 1, 0), MkRow(1, 0, 1, 1, 0)}

ExtractRows == {[timestamp |-> t] @@ b : t \in ExtractDays, b \in ExtractBars}

ExtractFrames == {Frame(ResampledCols, rows) : rows \in SeqsUpTo(ExtractRows, MaxExtractRows)}

\* The frames extract_api can return: one bar per day on consecutive days,
\* every price positive and no value missing (its symbol column, which no
\* stage reads, is left out).
ApiFrames ==
    {g \in ExtractFrames :
        /\ Len(g.rows) > 0
        /\ \A i \in DOMAIN g.rows :
            /\ [c \in DOMAIN CleanRow |-> g.rows[i][c]] = CleanRow
            /\ i > 1 => g.rows[i]["timestamp"] = g.rows[i - 1]["timestamp"] + 1}

\* The reports an instance can hold when run_pipeline is called: none, or
\* the entry of an earlier validation.
PriorReports == {<<>>, <<validate_data(Frame(OhlcvCols, <<CleanRow, CleanRow>>)).entry>>}

(***************************************************************************)
(* The state of an instance outside run_pipeline.                          *)
(***************************************************************************)
NoPipeline ==
    /\ output_format = "parquet"
    /\ pc = "idle"
    /\ source_type = "none"
    /\ add_indicators = FALSE
    /\ resample_freq = "None"
    /\ extracted = EmptyFrame
    /\ stages = <<>>
    /\ loaded = <<>>
    /\ report_before = <<>>

(***************************************************************************)
(* The validator called repeatedly on one instance, each call on the       *)
(* frame the previous call returned.                                       *)
(***************************************************************************)
InitValidate ==
    /\ df \in ValidateInputs
    /\ arg = EmptyFrame
    /\ passed = EmptyFrame
    /\ data_quality_report = <<>>
    /\ op = "init"
    /\ NoPipeline

ValidateData ==
    /\ Len(data_quality_report) < MaxCalls
    /\ \E res \in {validate_data(df)} :
        /\ df' = res.df
        /\ data_quality_report' = Append(data_quality_report, res.entry)
    /\ arg' = df
    /\ passed' = df
    /\ op' = "validate_data"
    /\ UNCHANGED pipeline_vars

NextValidate == ValidateData

SpecValidate == InitValidate /\ [][NextValidate]_vars

(***************************************************************************)
(* The indicator engine applied to a frame.                                *)
(***************************************************************************)
InitIndicators ==
    /\ df \in IndicatorInputs
    /\ arg = EmptyFrame
    /\ passed = EmptyFrame
    /\ data_quality_report = <<>>
    /\ op = "init"
    /\ NoPipeline

TransformAddIndicators ==
    /\ op = "init"
    /\ \E res \in {transform_add_indicators(df)} :
        /\ df' = res.result
        /\ passed' = res.input
    /\ arg' = df
    /\ op' = "transform_add_indicators"
    /\ UNCHANGED <<data_quality_report, pipeline_vars>>

NextIndicators == TransformAddIndicators

SpecIndicators == InitIndicators /\ [][NextIndicators]_vars

(***************************************************************************)
(* The resampler applied to a frame.                                       *)
(***************************************************************************)
InitResample ==
    /\ df \in ResampleInputs
    /\ arg = EmptyFrame
    /\ passed = EmptyFrame
    /\ data_quality_report = <<>>
    /\ op = "init"
    /\ NoPipeline

TransformResample ==
    /\ op = "init"
    /\ \E freq \in Frequencies :
        /\ df' = transform_resample(df, freq)
        /\ resample_freq' = freq
    /\ arg' = df
    /\ passed' = df
    /\ op' = "transform_resample"
    /\ UNCHANGED <<data_quality_report, output_format, pc, source_type, add_indicators,
                   extracted, stages, loaded, report_before>>

NextResample == TransformResample

SpecResample == InitResample /\ [][NextResample]_vars

(***************************************************************************)
(* run_pipeline, one stage at a time.  pc names the stage performed next.  *)
(***************************************************************************)
SourceTypes == {"csv", "json", "api", "invalid"}

OutputFormats == {"csv", "xlsx"}

\* if resample_freq: None and the empty string request no resampling.
FreqSet(freq) == freq \notin {"None", ""}

\* df.empty: no rows or no columns.
IsEmpty(d) == Len(d.rows) = 0 \/ Len(d.cols) = 0

\* Faulty variant of the stage order: resample before the indicators.
StageAfterSwapped(s, indicators, freq) ==
    CASE s = "validate" ->
            IF FreqSet(freq) THEN "resample"
            ELSE IF indicators THEN "add_indicators" ELSE "load"
      [] s = "resample" -> IF indicators THEN "add_indicators" ELSE "load"
      [] s = "add_indicators" -> "load"
      [] s = "load" -> "returned"

\* The stage that follows stage s in run_pipeline, given its arguments.
StageAfter(s, indicators, freq) ==
    CASE s = "validate" ->
            IF indicators THEN "add_indicators"
            ELSE IF FreqSet(freq) THEN "resample" ELSE "load"
      [] s = "add_indicators" -> IF FreqSet(freq) THEN "resample" ELSE "load"
      [] s = "resample" -> "load"
      [] s = "load" -> "returned"

Init ==
    /\ df = EmptyFrame
    /\ arg = EmptyFrame
    /\ passed = EmptyFrame
    /\ data_quality_report \in PriorReports
    /\ op = "init"
    /\ output_format \in OutputFormats
    /\ pc = "idle"
    /\ source_type = "none"
    /\ add_indicators = FALSE
    /\ resample_freq = "None"
    /\ extracted = EmptyFrame
    /\ stages = <<>>
    /\ loaded = <<>>
    /\ report_before = data_quality_report

RunPipeline ==
    /\ pc = "idle"
    /\ \E st \in SourceTypes, ind \in BOOLEAN, freq \in {"None"} \cup Frequencies :
        /\ source_type' = st
        /\ add_indicators' = ind
        /\ resample_freq' = freq
    /\ pc' = "extract"
    /\ report_before' = data_quality_report
    /\ op' = "run_pipeline"
    /\ UNCHANGED <<df, arg, passed, data_quality_report, output_format, extracted, stages,
                   loaded>>

\* What follows the extraction: an empty frame is returned at once.
Extracted(f) ==
    /\ df' = f
    /\ extracted' = f
    /\ stages' = Append(stages, "extract")
    /\ pc' = IF IsEmpty(f) THEN "returned" ELSE "validate"
    /\ UNCHANGED <<arg, passed, data_quality_report, output_format, source_type,
                   add_indicators, resample_freq, loaded, report_before>>

\* extract_csv and extract_json return what the file holds, or an empty
\* frame when reading it fails.
ExtractCsv ==
    /\ pc = "extract"
    /\ source_type = "csv"
    /\ op' = "extract_csv"
    /\ \E f \in ExtractFrames \cup {EmptyFrame} : Extracted(f)

ExtractJson ==
    /\ pc = "extract"
    /\ source_type = "json"
    /\ op' = "extract_json"
    /\ \E f \in ExtractFrames \cup {EmptyFrame} : Extracted(f)

\* extract_api generates one row per day: it never returns an empty frame.
ExtractApi ==
    /\ pc = "extract"
    /\ source_type = "api"
    /\ op' = "extract_api"
    /\ \E f \in ApiFrames : Extracted(f)

UnknownSource ==
    /\ pc = "extract"
    /\ source_type \notin {"csv", "json", "api"}
    /\ pc' = "raised"
    /\ op' = "ValueError"
    /\ UNCHANGED <<df, arg, passed, data_quality_report, output_format, source_type,
                   add_indicators, resample_freq, extracted, stages, loaded, report_before>>

Validate ==
    /\ pc = "validate"
    /\ \E res \in {validate_data(df)} :
        /\ df' = res.df
        /\ data_quality_report' = Append(data_quality_report, res.entry)
    /\ arg' = df
    /\ passed' = df
    /\ op' = "validate_data"
    /\ stages' = Append(stages, "validate")
    /\ pc' = StageAfter("validate", add_indicators, resample_freq)
    /\ UNCHANGED <<output_format, source_type, add_indicators, resample_freq, extracted,
                   loaded, report_before>>

AddIndicators ==
    /\ pc = "add_indicators"
    /\ \E res \in {transform_add_indicators(df)} :
        /\ df' = res.result
        /\ passed' = res.input
    /\ arg' = df
    /\ op' = "transform_add_indicators"
    /\ stages' = Append(stages, "add_indicators")
    /\ pc' = StageAfter("add_indicators", add_indicators, resample_freq)
    /\ UNCHANGED <<data_quality_report, output_format, source_type, add_indicators,
                   resample_freq, extracted, loaded, report_before>>

Resample ==
    /\ pc = "resample"
    /\ df' = transform_resample(df, resample_freq)
    /\ arg' = df
    /\ passed' = df
    /\ op' = "transform_resample"
    /\ stages' = Append(stages, "resample")
    /\ pc' = StageAfter("resample", add_indicators, resample_freq)
    /\ UNCHANGED <<data_quality_report, output_format, source_type, add_indicators,
                   resample_freq, extracted, loaded, report_before>>

\* load_to_file writes the frame, or raises for an unknown format.
Load ==
    /\ pc = "load"
    /\ output_format \in KnownFormats
    /\ loaded' = Append(loaded, df)
    /\ arg' = df
    /\ passed' = df
    /\ op' = "load_to_file"
    /\ stages' = Append(stages, "load")
    /\ pc' = StageAfter("load", add_indicators, resample_freq)
    /\ UNCHANGED <<df, data_quality_report, output_format, source_type, add_indicators,
                   resample_freq, extracted, report_before>>

LoadUnknownFormat ==
    /\ pc = "load"
    /\ output_format \notin KnownFormats
    /\ arg' = df
    /\ passed' = df
    /\ op' = "ValueError"
    /\ stages' = Append(stages, "load")
    /\ pc' = "raised"
    /\ UNCHANGED <<df, data_quality_report, output_format, source_type, add_indicators,
                   resample_freq, extracted, loaded, report_before>>

Next ==
    \/ RunPipeline
    \/ ExtractCsv
    \/ ExtractJson
    \/ ExtractApi
    \/ UnknownSource
    \/ Validate
    \/ AddIndicators
    \/ Resample
    \/ Load
    \/ LoadUnknownFormat

Spec == Init /\ [][Next]_vars

(***************************************************************************)
(* Properties of validate_data (SpecValidate).                             *)
(***************************************************************************)
PriceFields == {"open", "high", "low", "close"}

Rows(d) == {d.rows[i] : i \in DOMAIN d.rows}

\* The invariant of a validated record.
RowValid(r) ==
    /\ Gt(r["open"], 0) /\ Gt(r["high"], 0) /\ Gt(r["low"], 0) /\ Gt(r["close"], 0)
    /\ Ge(r["volume"], 0)
    /\ Le(r["low"], r["open"]) /\ Le(r["low"], r["close"])
    /\ Le(r["open"], r["high"]) /\ Le(r["close"], r["high"])

C2_Idempotent ==
    Len(data_quality_report) >= 2 =>
        /\ df = arg
        /\ data_quality_report[Len(data_quality_report)].removed_rows = 0

\* A second call, on the non-empty output of a call that removed rows.
C2_Witness ==
    /\ Len(data_quality_report) = 2
    /\ data_quality_report[1].removed_rows > 0
    /\ Len(df.rows) > 0

\* C3: the non-positive price rule removes exactly the rows with a value
\* <= 0 in open, high, low or close; every other row that reaches the rule,
\* a row with a missing price included, stays, in its original order.
C3_OnlyNonPositiveRemoved ==
    op = "validate_data" =>
        AfterPrices(arg).rows =
            SelectSeq(AfterOhlc(arg).rows, LAMBDA r : \A c \in PriceFields : ~Le(r[c], 0))

\* C6: each validate_data call appends exactly one entry and leaves the
\* earlier entries as they were; the entry has initial_rows = the rows of
\* the input, final_rows = the rows of the output, final_rows <=
\* initial_rows and removed_rows = initial_rows - final_rows.
C6_OneEntryPerCall ==
    [][op' = "validate_data" =>
        /\ Len(data_quality_report') = Len(data_quality_report) + 1
        /\ SubSeq(data_quality_report', 1, Len(data_quality_report)) = data_quality_report
        /\ LET entry == data_quality_report'[Len(data_quality_report')]
           IN  /\ entry.initial_rows = Len(df.rows)
               /\ entry.final_rows = Len(df'.rows)
               /\ entry.final_rows <= entry.initial_rows
               /\ entry.removed_rows = entry.initial_rows - entry.final_rows]_vars

\* Two calls on one instance, the first of which removed a row.
C6_Witness ==
    /\ Len(data_quality_report) = 2
    /\ data_quality_report[1].final_rows < data_quality_report[1].initial_rows
    /\ data_quality_report[2].initial_rows = data_quality_report[1].final_rows

(***************************************************************************)
(* Properties of transform_add_indicators (SpecIndicators).                *)
(***************************************************************************)
\* The close of row i of the frame passed in.
CloseAt(i) == arg.rows[i]["close"]

\* The rows of the window that ends at row i.
Window(i) == (i - RsiWindow + 1)..i

\* The sum of the rises of close over the moves in S, and of its falls; the
\* first row has no move.
RECURSIVE Rises(_)
Rises(S) ==
    IF S = {} THEN 0
    ELSE LET j == CHOOSE x \in S : TRUE
         IN  (IF j > 1 /\ CloseAt(j) > CloseAt(j - 1) THEN CloseAt(j) - CloseAt(j - 1) ELSE 0)
             + Rises(S \ {j})

RECURSIVE Falls(_)
Falls(S) ==
    IF S = {} THEN 0
    ELSE LET j == CHOOSE x \in S : TRUE
         IN  (IF j > 1 /\ CloseAt(j) < CloseAt(j - 1) THEN CloseAt(j - 1) - CloseAt(j) ELSE 0)
             + Falls(S \ {j})

Enrichment == op = "transform_add_indicators" /\ "close" \in Columns(arg)

\* C7: rsi is undefined in each of the first 14 rows (row indices 0 to 13),
\* for every close series.
C7_UndefinedInFirst14Rows ==
    Enrichment => \A i \in DOMAIN df.rows : i <= RsiWindow => IsFNaN(df.rows[i]["rsi"])

\* C8: in every row with a full window, rsi is 100 when the mean loss is 0
\* and the mean gain > 0, undefined when both are 0, and 100 - 100/(1 +
\* gain/loss) otherwise; a defined rsi lies in [0, 100].
C8_RsiOfGainAndLoss ==
    Enrichment =>
        \A i \in DOMAIN df.rows :
            i >= RsiWindow =>
                LET gain == Rises(Window(i))
                    loss == Falls(Window(i))
                    rsi == df.rows[i]["rsi"]
                IN  /\ (loss = 0 /\ gain > 0) => rsi = FInt(100)
                    /\ (loss = 0 /\ gain = 0) => IsFNaN(rsi)
                    /\ loss > 0 => rsi.d > 0 /\ rsi.n * (gain + loss) = 100 * gain * rsi.d
                    /\ ~IsFNaN(rsi) => FLe(FInt(0), rsi) /\ FLe(rsi, FInt(100))

\* A series that gives one row an rsi of 100 and another an rsi strictly
\* between 0 and 100.
C8_Witness ==
    /\ Enrichment
    /\ \E i \in DOMAIN df.rows : df.rows[i]["rsi"] = FInt(100)
    /\ \E i \in DOMAIN df.rows :
        FLt(FInt(0), df.rows[i]["rsi"]) /\ FLt(df.rows[i]["rsi"], FInt(100))

\* C10: after transform_add_indicators the frame the caller passed in is as
\* it was: same rows, same fields, no indicator column.
C10_InputUnchanged == op = "transform_add_indicators" => passed = arg

(***************************************************************************)
(* Properties of transform_resample (SpecResample).                        *)
(***************************************************************************)
Resampled == op = "transform_resample" /\ "timestamp" \in Columns(arg)

\* The rows of the input in the bucket labelled b.
Bucket(b) == {i \in DOMAIN arg.rows : BinLabel(resample_freq, arg.rows[i]["timestamp"]) = b}

\* Row i comes before row j in timestamp order (rows of one timestamp in
\* the order of the input).
Earlier(i, j) ==
    \/ arg.rows[i]["timestamp"] < arg.rows[j]["timestamp"]
    \/ arg.rows[i]["timestamp"] = arg.rows[j]["timestamp"] /\ i <= j

EarliestOf(S) == CHOOSE i \in S : \A j \in S : Earlier(i, j)
LatestOf(S) == CHOOSE i \in S : \A j \in S : Earlier(j, i)

\* The rows of bucket b whose column col is not missing.
Known(b, col) == {i \in Bucket(b) : ~IsNull(arg.rows[i][col])}

RECURSIVE TotalOf(_, _)
TotalOf(S, col) ==
    IF S = {} THEN 0
    ELSE LET i == CHOOSE x \in S : TRUE IN arg.rows[i][col] + TotalOf(S \ {i}, col)

\* A bucket with a known value in each of open, high, low and close.
CompleteBucket(b) == \A c \in PriceFields : Known(b, c) # {}

OutputShape ==
    /\ df.cols = ResampledCols
    /\ \A k \in DOMAIN df.rows : DOMAIN df.rows[k] = {"timestamp"} \cup PriceFields \cup {"volume"}
    /\ \A k \in 1..(Len(df.rows) - 1) : df.rows[k]["timestamp"] < df.rows[k + 1]["timestamp"]
    /\ Len(df.rows) <= Len(arg.rows)

\* C9 as stated: one row per non-empty, complete bucket, ascending, with the
\* fields timestamp, open, high, low, close, volume, where open is the open
\* of the bucket's first row by timestamp order, high the maximum high, low
\* the minimum low, close the close of the bucket's last row and volume the
\* sum of the volumes; never more rows than the input.
C9_FirstRowOpenLastRowClose ==
    Resampled =>
        /\ OutputShape
        /\ \A k \in DOMAIN df.rows :
            LET b == df.rows[k]["timestamp"]
            IN  /\ Bucket(b) # {}
                /\ df.rows[k]["open"] = arg.rows[EarliestOf(Bucket(b))]["open"]
                /\ df.rows[k]["close"] = arg.rows[LatestOf(Bucket(b))]["close"]
                /\ \A i \in Known(b, "high") : arg.rows[i]["high"] <= df.rows[k]["high"]
                /\ \A i \in Known(b, "low") : arg.rows[i]["low"] >= df.rows[k]["low"]
                /\ df.rows[k]["volume"] = TotalOf(Known(b, "volume"), "volume")

\* C9 amended: one row per bucket that has a known open, high, low and
\* close, ascending, with the fields timestamp, open, high, low, close,
\* volume, where open is the first known open of the bucket by timestamp
\* order, high the maximum known high, low the minimum known low, close the
\* last known close and volume the sum of the known volumes (0 when there
\* is none); never more rows than the input.
C9_FirstKnownOpenLastKnownClose ==
    Resampled =>
        /\ OutputShape
        /\ {df.rows[k]["timestamp"] : k \in DOMAIN df.rows}
             = {b \in {BinLabel(resample_freq, arg.rows[i]["timestamp"]) : i \in DOMAIN arg.rows} :
                    CompleteBucket(b)}
        /\ \A k \in DOMAIN df.rows :
            LET b == df.rows[k]["timestamp"]
            IN  /\ df.rows[k]["open"] = arg.rows[EarliestOf(Known(b, "open"))]["open"]
                /\ df.rows[k]["close"] = arg.rows[LatestOf(Known(b, "close"))]["close"]
                /\ \E i \in Known(b, "high") : arg.rows[i]["high"] = df.rows[k]["high"]
                /\ \A i \in Known(b, "high") : arg.rows[i]["high"] <= df.rows[k]["high"]
                /\ \E i \in Known(b, "low") : arg.rows[i]["low"] = df.rows[k]["low"]
                /\ \A i \in Known(b, "low") : arg.rows[i]["low"] >= df.rows[k]["low"]
                /\ df.rows[k]["volume"] = TotalOf(Known(b, "volume"), "volume")

\* A weekly bucket whose first row by timestamp order comes second in the
\* input and has no open, and whose open is that of the later row.
C9_Witness ==
    /\ Resampled
    /\ resample_freq = "W"
    /\ Len(arg.rows) = 2
    /\ arg.rows[1]["timestamp"] > arg.rows[2]["timestamp"]
    /\ IsNull(arg.rows[2]["open"])
    /\ Len(df.rows) = 1
    /\ df.rows[1]["open"] = arg.rows[1]["open"]

(***************************************************************************)
(* Properties of run_pipeline (Spec).                                      *)
(***************************************************************************)
IsPrefix(s, t) == Len(s) <= Len(t) /\ SubSeq(t, 1, Len(s)) = s

\* The stages of a call that extracts a non-empty frame, in order.
ExpectedStages ==
    <<"extract", "validate">>
    \o (IF add_indicators THEN <<"add_indicators">> ELSE <<>>)
    \o (IF FreqSet(resample_freq) THEN <<"resample">> ELSE <<>>)
    \o <<"load">>

Validations == Cardinality({k \in DOMAIN stages : stages[k] = "validate"})

\* C4: run_pipeline performs extract, validate, add indicators (if asked),
\* resample (if a frequency is set) and load in this order; an unsupported
\* source type raises before any extraction, validation, report entry or
\* load; an empty extraction is returned at once, with no validation, no
\* report entry and no load.
C4_StageOrder ==
    /\ IsPrefix(stages, ExpectedStages)
    /\ Len(data_quality_report) = Len(report_before) + Validations
    /\ Len(loaded) = Cardinality({k \in DOMAIN stages : stages[k] = "load"
                                                        /\ output_format \in KnownFormats})
    /\ (pc = "returned" /\ ~IsEmpty(extracted)) => stages = ExpectedStages
    /\ (pc \in {"extract", "raised"} /\ source_type \notin {"csv", "json", "api"}) =>
            /\ stages = <<>>
            /\ extracted = EmptyFrame
            /\ data_quality_report = report_before
            /\ loaded = <<>>
    /\ (pc # "extract" /\ stages # <<>> /\ IsEmpty(extracted)) =>
            /\ pc = "returned"
            /\ stages = <<"extract">>
            /\ df = extracted
            /\ data_quality_report = report_before
            /\ loaded = <<>>

\* A call with indicators and a frequency that went through all five stages.
C4_Witness ==
    /\ pc = "returned"
    /\ stages = <<"extract", "validate", "add_indicators", "resample", "load">>
    /\ Len(loaded) = 1

\* C5: a run_pipeline call with add_indicators and a resample frequency, on
\* a non-empty extraction, returns records that hold sma_20 and rsi.
C5_IndicatorsSurviveResample ==
    (pc = "returned" /\ add_indicators /\ FreqSet(resample_freq) /\ ~IsEmpty(extracted)) =>
        {"sma_20", "rsi"} \subseteq Columns(df)

====
